---- MODULE Spec2Model ----
(***************************************************************************)
(* State-machine model of server.js: the SSE progress registry (sseMap,    *)
(* /api/progress) and the /api/download handler with its ytdl-core primary *)
(* stream and its yt-dlp fallback process, and the /api/formats handler     *)
(* with its two resolvers and the client-side list built from its answer.  *)
(*                                                                         *)
(* One action is one callback of the Node event loop: a route handler up   *)
(* to its first await, the continuation of an await, or one event          *)
(* listener.  The ytdl-core stream, the yt-dlp process and the HTTP        *)
(* clients are the environment: they decide which event comes next.        *)
(***************************************************************************)
EXTENDS Integers, Sequences, FiniteSets, TLC

\* ------------------------------------------------------------------ bounds
NumIds       == 2   \* distinct requestId values clients use
MaxConns     == 1   \* /api/progress connections opened in a run of Spec
MaxDownloads == 1   \* /api/download requests in a run of Spec
RegConns     == 2   \* /api/progress connections opened in a run of SpecReg
RegDownloads == 1   \* /api/download requests in a run of SpecReg
MaxChunks    == 2   \* chunks one ytdl stream produces
MaxErrors    == 2   \* 'error' events one ytdl stream emits
MaxOut       == 1   \* chunks one yt-dlp process writes to its stdout
MaxFormatReqs == 1  \* /api/formats requests in a run of SpecFmt
ConcConns    == 2   \* /api/progress connections opened in a run of SpecConc
ConcDownloads == 2  \* /api/download requests in a run of SpecConc
MaxFormats   == 3   \* entries of the raw format list a backend reports

Ids       == 1..NumIds
NoId      == 0                  \* req.query.requestId undefined or ''
Max(a, b) == IF a >= b THEN a ELSE b
Conns     == 1..Max(Max(MaxConns, RegConns), ConcConns)
None      == 0                  \* Map.get() === undefined
Downloads == 1..Max(Max(MaxDownloads, RegDownloads), ConcDownloads)
FormatReqs == 1..MaxFormatReqs

Types   == {"audio", "video"}   \* req.query.type || 'video'
NoItag  == "none"               \* req.query.itag undefined or ''
Itags   == {NoItag, "known", "unknown"}  \* known/unknown to info.formats

VARIABLES
  sseMap,        \* sseMap: requestId -> progress connection, None if absent
  sse,           \* per progress connection: its state and what was written
  pc,            \* per download: position of the /api/download handler
  req,           \* per download: the query parameters the handler read
  res,           \* per download: the caller's response object
  stream,        \* per download: the ytdl-core stream
  streamErrHandled, \* per download: the closure variable of that name
  child,         \* per download: the yt-dlp processes spawned, in order
  callerClosed,  \* per download: the request's 'close' event has fired
  dcalls,        \* per download: calls of ytdl.getInfo the handler made
  notified,      \* per download: POSTs maybeNotify sent to the webhook
  notify,        \* per download: what maybeNotify read and how its POST ended
  fmtReq,           \* per /api/formats request: handler position, calls, answer
  log,           \* logs/errors.log: the lines appended, in order
  shown          \* per /api/formats request: the option list of the client

fmtVars == <<fmtReq, log, shown>>
vars == <<sseMap, sse, pc, req, res, stream, streamErrHandled, child, callerClosed,
          dcalls, notified, notify, fmtReq, log, shown>>

\* --------------------------------------------------------------- registry
\* Map.prototype.set / delete / get on sseMap.
MapSet(map, id, c) == [map EXCEPT ![id] = c]
MapDelete(map, id) == [map EXCEPT ![id] = None]
\* The two guards of the progress listener: no requestId, or no entry.
\* (variant: an id without entry falls back to any registered connection)
LookupFirst(map, rid) == IF rid = NoId THEN None ELSE
                         IF map[rid] # None THEN map[rid] ELSE
                         IF \E i \in Ids : map[i] # None
                           THEN map[CHOOSE i \in Ids : map[i] # None] ELSE None
Lookup(map, rid) == IF rid = NoId THEN None ELSE map[rid]

FreshSse == [st |-> "unused", id |-> NoId, ended |-> FALSE, closed |-> FALSE,
             nprog |-> 0, done |-> FALSE, error |-> FALSE]

FreshRes    == [status |-> 0, headersSent |-> FALSE, bytes |-> 0, ended |-> "no",
                message |-> ""]
FreshStream == [st |-> "none", format |-> "none", total |-> 0, downloaded |-> 0,
                piped |-> 0, errors |-> 0]
FreshReq    == [rid |-> NoId, type |-> "video", itag |-> NoItag,
                urlOk |-> TRUE, key |-> "", provided |-> ""]

\* GET /api/progress: 400 without requestId, else the response is stored
\* under the id, replacing whatever was there.
\* (variant: an id that has an entry keeps it)
RegisterKeepFirst(map, id, c) == IF map[id] = None THEN MapSet(map, id, c) ELSE map
Register(map, id, c) == MapSet(map, id, c)

SseRequest(c, id) ==
  /\ sse[c].st = "unused"
  /\ \A b \in Conns : b < c => sse[b].st # "unused"
  /\ IF id = NoId
       THEN /\ sse' = [sse EXCEPT ![c] = [@ EXCEPT !.st = "rejected", !.ended = TRUE]]
            /\ UNCHANGED sseMap
       ELSE /\ sse' = [sse EXCEPT ![c] = [@ EXCEPT !.st = "open", !.id = id]]
            /\ sseMap' = Register(sseMap, id, c)
  /\ UNCHANGED <<pc, req, res, stream, streamErrHandled, child, callerClosed>>
  /\ UNCHANGED <<dcalls, notified, notify, fmtVars>>

\* req.on('close') of a progress connection: deletes the id it registered.
\* (variant: the close listener forgets the delete)
CloseKeepEntry(map, id) == map
OnSseClose(map, id) == MapDelete(map, id)

SseClose(c) ==
  /\ sse[c].st = "open"
  /\ ~sse[c].closed
  /\ sse' = [sse EXCEPT ![c].closed = TRUE]
  /\ sseMap' = OnSseClose(sseMap, sse[c].id)
  /\ UNCHANGED <<pc, req, res, stream, streamErrHandled, child, callerClosed>>
  /\ UNCHANGED <<dcalls, notified, notify, fmtVars>>

\* ------------------------------------------------------- progress listener
\* stream.on('progress', (chunkLength, downloaded, total) => ...): total is
\* 0 when the size is unknown.
IsFinal(downloaded, total) == total # 0 /\ downloaded >= total

\* What the listener writes to the connection it found: one data event,
\* and on the final chunk the 'done' event followed by end().
\* (variant: the final chunk writes done without end())
WriteDoneKeepOpen(conn, final) ==
  [conn EXCEPT !.nprog = @ + 1, !.done = @ \/ final]
WriteProgress(conn, final) ==
  [conn EXCEPT !.nprog = @ + 1, !.done = @ \/ final, !.ended = @ \/ final]

\* The registry after the listener ran.
\* (variant: the final chunk leaves the entry in place)
AfterProgressKeep(map, rid, final) == map
\* (variant: the final chunk empties the registry)
AfterProgressClear(map, rid, final) == IF final THEN [i \in Ids |-> None] ELSE map
AfterProgress(map, rid, final) == IF final THEN MapDelete(map, rid) ELSE map

\* ------------------------------------------------------------ /api/download
Keys   == {"", "k1"}            \* process.env.API_KEY ('' = not set)
Given  == {"", "k1", "k2"}      \* x-api-key header || api_key query

\* `if (API_KEY)` and `if (!provided || provided !== API_KEY)`.
\* (variant: a request without key is let through)
UnauthorizedIfGiven(key, provided) ==
  key # "" /\ provided # "" /\ provided # key
Unauthorized(key, provided) ==
  key # "" /\ (provided = "" \/ provided # key)

\* The two checks the handler makes before its try block, in the order it
\* makes them: the status it returns, 0 when the request passes both.
\* (variant: the url is checked before the key)
ValidateUrlFirst(urlOk, key, provided) ==
  IF ~urlOk THEN 400 ELSE IF Unauthorized(key, provided) THEN 401 ELSE 0
Validate(urlOk, key, provided) ==
  IF Unauthorized(key, provided) THEN 401 ELSE IF ~urlOk THEN 400 ELSE 0

\* The handler up to `await ytdl.getInfo(...)`.  `provided` is read only
\* when a key is configured.
DownloadRequest(d, rid, type, itag, urlOk, key, provided) ==
  /\ pc[d] = "idle"
  /\ \A e \in Downloads : e < d => pc[e] # "idle"
  /\ req' = [req EXCEPT ![d] = [rid |-> rid, type |-> type, itag |-> itag,
                                urlOk |-> urlOk, key |-> key,
                                provided |-> IF key = "" THEN "" ELSE provided]]
  /\ LET status == Validate(urlOk, key, provided)
     IN IF status # 0
          THEN /\ res' = [res EXCEPT ![d] = [@ EXCEPT !.status = status,
                             !.headersSent = TRUE, !.ended = "json"]]
               /\ pc' = [pc EXCEPT ![d] = "returned"]
               /\ UNCHANGED dcalls
          ELSE /\ res' = res
               /\ pc' = [pc EXCEPT ![d] = "awaitInfo"]
               /\ dcalls' = [dcalls EXCEPT ![d] = @ + 1]
  /\ UNCHANGED <<sseMap, sse, stream, streamErrHandled, child, callerClosed>>
  /\ UNCHANGED <<notified, notify, fmtVars>>

\* catch (err) of the handler: getInfo rejected, or startYtdlStream threw.
\* The body carries err.message.
CatchInfoError(r, message) ==
  IF r.ended = "no"
    THEN [r EXCEPT !.status = 500, !.headersSent = TRUE, !.ended = "json",
                   !.message = message]
    ELSE r

GetInfoFailed == "getInfo failed"
NoSuchFormat  == "No such format found"

GetInfoReject(d) ==
  /\ pc[d] = "awaitInfo"
  /\ res' = [res EXCEPT ![d] = CatchInfoError(@, GetInfoFailed)]
  /\ pc' = [pc EXCEPT ![d] = "returned"]
  /\ UNCHANGED <<sseMap, sse, req, stream, streamErrHandled, child, callerClosed>>
  /\ UNCHANGED <<dcalls, notified, notify, fmtVars>>

\* ytdl.chooseFormat(info.formats, {quality: itag}) is library code: for an
\* itag that info.formats holds it returns that format; for any other it
\* either returns nothing or throws.
ChooseOutcomes(itag) ==
  IF itag = "known" THEN {"format"} ELSE {"nothing", "throws"}

\* The format startYtdlStream asks ytdl for.
StreamFormat(type, itag, outcome) ==
  IF itag # NoItag /\ outcome = "format" THEN "itag"
  ELSE IF type = "audio" THEN "highest-audio" ELSE "highest-video"

\* maybeNotify: the webhook is POSTed when NOTIFY_WEBHOOK is set and the
\* process runs in production or on Render.
\* (variant: every download is announced)
NotifyAlways(webhook, isProd) == TRUE
MaybeNotify(webhook, isProd) == webhook /\ isProd

\* webhook: NOTIFY_WEBHOOK is set (to a URL that parses); isProd: NODE_ENV is
\* 'production' or a RENDER_* variable is set.
FreshNotify == [webhook |-> FALSE, isProd |-> FALSE, st |-> "none"]

\* The POST of maybeNotify got its response (ok) or emitted 'error': the
\* response callback drains the body, the error listener is empty.
NotifyOutcome(d, ok) ==
  /\ notify[d].st = "pending"
  /\ notify' = [notify EXCEPT ![d].st = IF ok THEN "ok" ELSE "failed"]
  /\ UNCHANGED <<sseMap, sse, pc, req, res, stream, streamErrHandled, child, callerClosed>>
  /\ UNCHANGED <<dcalls, notified, fmtVars>>

\* Continuation of the await: headers are set (not sent), maybeNotify runs,
\* then the stream is created and piped to the response.
GetInfoResolve(d, outcome, total, webhook, isProd) ==
  /\ pc[d] = "awaitInfo"
  /\ notified' = [notified EXCEPT ![d] = IF MaybeNotify(webhook, isProd) THEN @ + 1 ELSE @]
  /\ notify' = [notify EXCEPT ![d] =
                  [webhook |-> webhook, isProd |-> isProd,
                   st |-> IF MaybeNotify(webhook, isProd) THEN "pending" ELSE "none"]]
  /\ IF req[d].itag # NoItag /\ outcome = "throws"
       THEN /\ res' = [res EXCEPT ![d] = CatchInfoError(@, NoSuchFormat)]
            /\ pc' = [pc EXCEPT ![d] = "returned"]
            /\ UNCHANGED stream
       ELSE /\ stream' = [stream EXCEPT ![d] = [FreshStream EXCEPT
                            !.st = "open", !.total = total,
                            !.format = StreamFormat(req[d].type, req[d].itag, outcome)]]
            /\ pc' = [pc EXCEPT ![d] = "started"]
            /\ UNCHANGED res
  /\ UNCHANGED <<sseMap, sse, req, streamErrHandled, child, callerClosed>>
  /\ UNCHANGED <<dcalls, fmtVars>>

\* The ytdl stream received one more chunk from upstream and emits 'progress'.
PrimaryProgress(d) ==
  /\ stream[d].st = "open"
  /\ stream[d].downloaded < (IF stream[d].total = 0 THEN MaxChunks ELSE stream[d].total)
  /\ LET dl    == stream[d].downloaded + 1
         c     == Lookup(sseMap, req[d].rid)
         final == IsFinal(dl, stream[d].total)
     IN /\ stream' = [stream EXCEPT ![d].downloaded = dl]
        /\ IF c = None
             THEN UNCHANGED <<sse, sseMap>>
             ELSE /\ sse' = [sse EXCEPT ![c] = WriteProgress(@, final)]
                  /\ sseMap' = AfterProgress(sseMap, req[d].rid, final)
  /\ UNCHANGED <<pc, req, res, streamErrHandled, child, callerClosed>>
  /\ UNCHANGED <<dcalls, notified, notify, fmtVars>>

\* stream.pipe(res): one chunk reaches the response; the first write sends
\* the headers.
PipeWrite(r) == [r EXCEPT !.headersSent = TRUE, !.bytes = @ + 1]

PrimaryData(d) ==
  /\ stream[d].st = "open"
  /\ stream[d].piped < stream[d].downloaded
  /\ ~callerClosed[d]
  /\ res[d].ended = "no"
  /\ stream' = [stream EXCEPT ![d].piped = @ + 1]
  /\ res' = [res EXCEPT ![d] = PipeWrite(@)]
  /\ UNCHANGED <<sseMap, sse, pc, req, streamErrHandled, child, callerClosed>>
  /\ UNCHANGED <<dcalls, notified, notify, fmtVars>>

\* The stream ends after its last chunk was piped: pipe() ends the response.
PrimaryEnd(d) ==
  /\ stream[d].st = "open"
  /\ stream[d].downloaded >= 1
  /\ stream[d].total = 0 \/ stream[d].downloaded = stream[d].total
  /\ stream[d].piped = stream[d].downloaded
  /\ ~callerClosed[d]
  /\ res[d].ended = "no"
  /\ stream' = [stream EXCEPT ![d].st = "ended"]
  /\ res' = [res EXCEPT ![d] = [@ EXCEPT !.headersSent = TRUE, !.ended = "primary"]]
  /\ UNCHANGED <<sseMap, sse, pc, req, streamErrHandled, child, callerClosed>>
  /\ UNCHANGED <<dcalls, notified, notify, fmtVars>>

\* ------------------------------------------------------------ yt-dlp fallback
\* formatArg of tryYtDlpFallback: the -f argument given to yt-dlp.
\* (variant: the itag is not looked at)
FormatArgByType(itag, type) == IF type = "audio" THEN "bestaudio" ELSE "best"
FormatArg(itag, type) ==
  IF itag # NoItag THEN itag ELSE IF type = "audio" THEN "bestaudio" ELSE "best"

\* `if (res.headersSent)`: the gate of tryYtDlpFallback.
\* (variant: the gate is missing, every error spawns)
GateNever(r) == FALSE
HeadersSentGate(r) == r.headersSent

NewChild(fmt) == [fmt |-> fmt, st |-> "running", signalled |-> FALSE, out |-> 0]

\* stream.on('error'): sets streamErrHandled and calls tryYtDlpFallback.
\* `fatal` says whether the stream is destroyed by the error or goes on.
PrimaryError(d, fatal) ==
  /\ stream[d].st = "open"
  /\ stream[d].errors < MaxErrors
  /\ stream' = [stream EXCEPT ![d].errors = @ + 1,
                              ![d].st = IF fatal THEN "destroyed" ELSE "open"]
  /\ streamErrHandled' = [streamErrHandled EXCEPT ![d] = TRUE]
  /\ IF HeadersSentGate(res[d])
       THEN /\ res' = [res EXCEPT ![d].ended = IF @ = "no" THEN "aborted" ELSE @]
            /\ UNCHANGED child
       ELSE /\ child' = [child EXCEPT ![d] =
                           Append(@, NewChild(FormatArg(req[d].itag, req[d].type)))]
            /\ UNCHANGED res
  /\ UNCHANGED <<sseMap, sse, pc, req, callerClosed>>
  /\ UNCHANGED <<dcalls, notified, notify, fmtVars>>

\* child.stdout.pipe(res): one chunk of yt-dlp output reaches the response.
ChildData(d, i) ==
  /\ i \in 1..Len(child[d])
  /\ child[d][i].st = "running"
  /\ child[d][i].out < MaxOut
  /\ ~callerClosed[d]
  /\ res[d].ended = "no"
  /\ child' = [child EXCEPT ![d][i].out = @ + 1]
  /\ res' = [res EXCEPT ![d] = PipeWrite(@)]
  /\ UNCHANGED <<sseMap, sse, pc, req, stream, streamErrHandled, callerClosed>>
  /\ UNCHANGED <<dcalls, notified, notify, fmtVars>>

\* The yt-dlp process exits (ok: with its whole output written); its stdout
\* ends and pipe() ends the response.  The execFile callback only logs.
ChildExit(d, i, ok) ==
  /\ i \in 1..Len(child[d])
  /\ child[d][i].st = "running"
  /\ ok => child[d][i].out >= 1 /\ ~child[d][i].signalled
  /\ child' = [child EXCEPT ![d][i].st = IF ok THEN "exited" ELSE "failed"]
  /\ IF res[d].ended = "no" /\ ~callerClosed[d]
       THEN res' = [res EXCEPT ![d] = [@ EXCEPT !.headersSent = TRUE, !.ended = "child"]]
       ELSE UNCHANGED res
  /\ UNCHANGED <<sseMap, sse, pc, req, stream, streamErrHandled, callerClosed>>
  /\ UNCHANGED <<dcalls, notified, notify, fmtVars>>

\* req.on('close') listeners of the download request: one per child that
\* tryYtDlpFallback had spawned when the event fires; each kills its child.
KillAll(cs) == [i \in 1..Len(cs) |-> [cs[i] EXCEPT !.signalled = TRUE]]

CallerClose(d) ==
  /\ pc[d] # "idle"
  /\ ~callerClosed[d]
  /\ callerClosed' = [callerClosed EXCEPT ![d] = TRUE]
  /\ child' = [child EXCEPT ![d] = KillAll(@)]
  /\ UNCHANGED <<sseMap, sse, pc, req, res, stream, streamErrHandled>>
  /\ UNCHANGED <<dcalls, notified, notify, fmtVars>>

\* ------------------------------------------- the server without fallback
\* src/unnamed/part_002 is the server before yt-dlp was added: its
\* /api/progress, its request checks, its format choice and its progress
\* listener are those modelled above, it has no maybeNotify, and its
\* stream.on('error') is the listener below.

\* What the listener writes to the connection it found: the 'error' event,
\* then end().
\* (variant: the connection is not ended)
StreamErrorEventKeepOpen(conn) == [conn EXCEPT !.error = TRUE]
StreamErrorEvent(conn) == [conn EXCEPT !.error = TRUE, !.ended = TRUE]

\* `if (!res.headersSent) res.status(500).json({ error: 'Download failed' })`
DownloadFailed == "Download failed"
StreamErrorAnswer(r) ==
  IF ~r.headersSent
    THEN [r EXCEPT !.status = 500, !.headersSent = TRUE, !.ended = "json",
                   !.message = DownloadFailed]
    ELSE r

StreamError(d) ==
  /\ stream[d].st = "open"
  /\ stream[d].errors < MaxErrors
  /\ res' = [res EXCEPT ![d] = StreamErrorAnswer(@)]
  /\ LET c == Lookup(sseMap, req[d].rid)
     IN IF c = None
          THEN UNCHANGED <<sse, sseMap>>
          ELSE /\ sse' = [sse EXCEPT ![c] = StreamErrorEvent(@)]
               /\ sseMap' = MapDelete(sseMap, req[d].rid)
  /\ stream' = [stream EXCEPT ![d].errors = @ + 1, ![d].st = "destroyed"]
  /\ UNCHANGED <<pc, req, streamErrHandled, child, callerClosed>>
  /\ UNCHANGED <<dcalls, notified, notify, fmtVars>>

\* ------------------------------------------------------------- /api/formats
\* Raw entries of info.formats as ytdl-core reports them ("" = undefined
\* container or null qualityLabel, 0 = no audioBitrate).
YtdlFormats == {
  [itag |-> 18,  container |-> "mp4",  hasVideo |-> TRUE,  hasAudio |-> TRUE,
   qualityLabel |-> "360p",  audioBitrate |-> 96],
  [itag |-> 22,  container |-> "mp4",  hasVideo |-> TRUE,  hasAudio |-> TRUE,
   qualityLabel |-> "720p",  audioBitrate |-> 192],
  [itag |-> 136, container |-> "mp4",  hasVideo |-> TRUE,  hasAudio |-> FALSE,
   qualityLabel |-> "720p",  audioBitrate |-> 0],
  [itag |-> 137, container |-> "mp4",  hasVideo |-> TRUE,  hasAudio |-> FALSE,
   qualityLabel |-> "1080p", audioBitrate |-> 0],
  [itag |-> 140, container |-> "mp4",  hasVideo |-> FALSE, hasAudio |-> TRUE,
   qualityLabel |-> "",      audioBitrate |-> 128],
  [itag |-> 96,  container |-> "",     hasVideo |-> TRUE,  hasAudio |-> TRUE,
   qualityLabel |-> "1080p", audioBitrate |-> 256],
  [itag |-> 0,   container |-> "mp4",  hasVideo |-> FALSE, hasAudio |-> FALSE,
   qualityLabel |-> "",      audioBitrate |-> 0] }

\* Raw entries of the `formats` array of `yt-dlp -J` ("" = field absent or
\* null, 0 = no abr).
YtDlpFormats == {
  [format_id |-> "18",  ext |-> "mp4",   vcodec |-> "avc1", acodec |-> "mp4a",
   format_note |-> "360p",   format |-> "18 - 640x360",     abr |-> 96],
  [format_id |-> "22",  ext |-> "mp4",   vcodec |-> "avc1", acodec |-> "mp4a",
   format_note |-> "720p",   format |-> "22 - 1280x720",    abr |-> 192],
  [format_id |-> "137", ext |-> "mp4",   vcodec |-> "avc1", acodec |-> "none",
   format_note |-> "1080p",  format |-> "137 - 1920x1080",  abr |-> 0],
  [format_id |-> "140", ext |-> "m4a",   vcodec |-> "none", acodec |-> "mp4a",
   format_note |-> "medium", format |-> "140 - audio only", abr |-> 128],
  [format_id |-> "251", ext |-> "webm",  vcodec |-> "none", acodec |-> "opus",
   format_note |-> "medium", format |-> "251 - audio only", abr |-> 160],
  [format_id |-> "233", ext |-> "mp4",   vcodec |-> "none", acodec |-> "",
   format_note |-> "",       format |-> "233 - audio only", abr |-> 0],
  [format_id |-> "sb0", ext |-> "mhtml", vcodec |-> "none", acodec |-> "none",
   format_note |-> "storyboard", format |-> "sb0 - 48x27",  abr |-> 0] }

\* The lists a backend can report: up to n distinct entries, in any order.
ListsOf(U, n) ==
  {l \in UNION {[1..k -> U] : k \in 0..n} :
     \A i, j \in DOMAIN l : i # j => l[i] # l[j]}

\* The quality labels of the entries above in the ascending order of
\* String.prototype.localeCompare(_, undefined, {numeric: true}): the empty
\* string first, digit runs by their value, digits before letters.
LabelOrder == <<"", "233 - audio only", "360p", "720p", "1080p", "medium", "storyboard">>
LabelRank(l) == CHOOSE i \in 1..Len(LabelOrder) : LabelOrder[i] = l
\* x.localeCompare(y, undefined, {numeric: true})
LocaleCompare(x, y) ==
  IF LabelRank(x) < LabelRank(y) THEN -1 ELSE IF LabelRank(x) > LabelRank(y) THEN 1 ELSE 0

\* The comparator both resolvers of the server sort with.
\* (variant: the audio+video rule is missing)
CompareByLabel(a, b) == LocaleCompare(b.qualityLabel, a.qualityLabel)
Compare(a, b) ==
  IF (a.hasVideo /\ a.hasAudio) /\ ~(b.hasVideo /\ b.hasAudio) THEN -1
  ELSE IF (b.hasVideo /\ b.hasAudio) /\ ~(a.hasVideo /\ a.hasAudio) THEN 1
  ELSE LocaleCompare(b.qualityLabel, a.qualityLabel)

\* The comparator of the client's fetchFormats.
\* (variant: the comparator stops at the quality label)
ClientCompareNoBitrate(a, b) == Compare(a, b)
ClientCompare(a, b) ==
  IF (a.hasAudio /\ a.hasVideo) /\ ~(b.hasAudio /\ b.hasVideo) THEN -1
  ELSE IF (b.hasAudio /\ b.hasVideo) /\ ~(a.hasAudio /\ a.hasVideo) THEN 1
  ELSE IF LocaleCompare(b.qualityLabel, a.qualityLabel) # 0
         THEN LocaleCompare(b.qualityLabel, a.qualityLabel)
  ELSE b.audioBitrate - a.audioBitrate

\* Array.prototype.sort(cmp): a stable sort, here by insertion from the
\* left; cmp[<<a, b>>] is the comparator's result for the entries a and b.
Insert(sorted, e, cmp) ==
  LET before == {i \in 1..Len(sorted) : cmp[<<e, sorted[i]>>] < 0}
      k      == IF before = {} THEN Len(sorted) + 1
                ELSE CHOOSE i \in before : \A j \in before : i <= j
  IN SubSeq(sorted, 1, k - 1) \o <<e>> \o SubSeq(sorted, k, Len(sorted))
SortBy(s, cmp) ==
  LET F[n \in 0..Len(s)] == IF n = 0 THEN << >> ELSE Insert(F[n - 1], s[n], cmp)
  IN F[Len(s)]
Entries(s) == {s[i] : i \in 1..Len(s)}

\* filter and map of the /api/formats handler.
YtdlFilter(f) == f.container # "" /\ (f.hasVideo \/ f.hasAudio)
YtdlDescriptor(f) ==
  [itag |-> f.itag, container |-> f.container, qualityLabel |-> f.qualityLabel,
   audioBitrate |-> f.audioBitrate, hasVideo |-> f.hasVideo, hasAudio |-> f.hasAudio]
YtdlList(raw) ==
  LET kept == SelectSeq(raw, YtdlFilter)
      fmts == [i \in 1..Len(kept) |-> YtdlDescriptor(kept[i])]
  IN SortBy(fmts, [p \in Entries(fmts) \X Entries(fmts) |-> Compare(p[1], p[2])])

\* filter and map of getFormatsWithYtDlp: hasVideo and hasAudio are the
\* truthiness of `f.vcodec && f.vcodec !== 'none'`.
YtDlpFilter(f) == f.ext # "" /\ (f.acodec # "none" \/ f.vcodec # "none")
YtDlpDescriptor(f) ==
  [itag |-> f.format_id, container |-> f.ext,
   qualityLabel |-> IF f.format_note # "" THEN f.format_note ELSE f.format,
   audioBitrate |-> f.abr,
   hasVideo |-> f.vcodec # "" /\ f.vcodec # "none",
   hasAudio |-> f.acodec # "" /\ f.acodec # "none"]
YtDlpList(raw) ==
  LET kept == SelectSeq(raw, YtDlpFilter)
      fmts == [i \in 1..Len(kept) |-> YtDlpDescriptor(kept[i])]
  IN SortBy(fmts, [p \in Entries(fmts) \X Entries(fmts) |-> Compare(p[1], p[2])])

FreshFmt == [pc |-> "idle", urlOk |-> TRUE, first |-> "none", second |-> "none",
             primary |-> 0, secondary |-> 0, raw |-> << >>,
             status |-> 0, formats |-> << >>, source |-> "", causes |-> {}, sent |-> 0,
             steps |-> << >>]
FreshShown == [done |-> FALSE, type |-> "video", list |-> << >>]

\* The handler up to `await ytdl.getInfo(...)`.
FormatsRequest(f, urlOk) ==
  /\ fmtReq[f].pc = "idle"
  /\ \A g \in FormatReqs : g < f => fmtReq[g].pc # "idle"
  /\ fmtReq' = [fmtReq EXCEPT ![f] =
       IF ~urlOk
         THEN [@ EXCEPT !.urlOk = FALSE, !.status = 400, !.sent = @ + 1, !.pc = "returned"]
         ELSE [@ EXCEPT !.urlOk = TRUE, !.first = "pending", !.primary = @ + 1,
                        !.pc = "awaitInfo"]]
  /\ UNCHANGED <<sseMap, sse, pc, req, res, stream, streamErrHandled, child, callerClosed>>
  /\ UNCHANGED <<dcalls, notified, notify, log, shown>>

\* res.json({ formats: fmts }) of the try block.
\* (variant: the secondary resolver is started as well)
PrimaryAnswerAndFallback(r, raw) ==
  [r EXCEPT !.first = "ok", !.raw = raw, !.formats = YtdlList(raw), !.status = 200,
            !.sent = @ + 1, !.secondary = @ + 1, !.pc = "returned"]
PrimaryAnswer(r, raw) ==
  [r EXCEPT !.first = "ok", !.raw = raw, !.formats = YtdlList(raw), !.status = 200,
            !.sent = @ + 1, !.pc = "returned"]

FormatsInfoResolve(f, raw) ==
  /\ fmtReq[f].pc = "awaitInfo"
  /\ fmtReq' = [fmtReq EXCEPT ![f] = PrimaryAnswer(@, raw)]
  /\ UNCHANGED <<sseMap, sse, pc, req, res, stream, streamErrHandled, child, callerClosed>>
  /\ UNCHANGED <<dcalls, notified, notify, log, shown>>

\* fs.appendFileSync on logs/errors.log inside try/catch: a failed write is
\* ignored.
AppendLog(l, line, ok) == IF ok THEN Append(l, line) ELSE l

\* catch (err) of the handler up to `await getFormatsWithYtDlp(videoUrl)`:
\* `steps` keeps the order of its two effects, the attempt to write the log
\* and the start of the secondary resolver.
\* (variant: the secondary resolver is started twice)
CatchPrimaryTwice(r) ==
  [r EXCEPT !.first = "rejected", !.second = "pending", !.secondary = @ + 2,
            !.steps = @ \o <<"log", "yt-dlp">>, !.pc = "awaitYtDlp"]
\* (variant: the secondary resolver is started before the log is written)
CatchPrimaryLogLast(r) ==
  [r EXCEPT !.first = "rejected", !.second = "pending", !.secondary = @ + 1,
            !.steps = @ \o <<"yt-dlp", "log">>, !.pc = "awaitYtDlp"]
CatchPrimary(r) ==
  [r EXCEPT !.first = "rejected", !.second = "pending", !.secondary = @ + 1,
            !.steps = @ \o <<"log", "yt-dlp">>, !.pc = "awaitYtDlp"]

FormatsInfoReject(f, logOk) ==
  /\ fmtReq[f].pc = "awaitInfo"
  /\ log' = AppendLog(log, "formats error", logOk)
  /\ fmtReq' = [fmtReq EXCEPT ![f] = CatchPrimary(@)]
  /\ UNCHANGED <<sseMap, sse, pc, req, res, stream, streamErrHandled, child, callerClosed>>
  /\ UNCHANGED <<dcalls, notified, notify, shown>>

\* The label of a response built from the secondary resolver's list.
SourceLabel == "yt-dlp"

\* res.status(500).json({ error, message: err && err.message }): `err` is
\* the error of the primary backend.
FailureAnswer(r) ==
  [r EXCEPT !.status = 500, !.causes = {"primary"}, !.sent = @ + 1, !.pc = "returned"]

\* getFormatsWithYtDlp resolved: a non-empty list is answered with the
\* label, an empty one falls through to the 500.
YtDlpResolve(f, raw) ==
  /\ fmtReq[f].pc = "awaitYtDlp"
  /\ LET list == YtDlpList(raw)
     IN fmtReq' = [fmtReq EXCEPT ![f] =
          IF Len(list) > 0
            THEN [@ EXCEPT !.second = "list", !.raw = raw, !.formats = list,
                           !.status = 200, !.source = SourceLabel, !.sent = @ + 1,
                           !.pc = "returned"]
            ELSE FailureAnswer([@ EXCEPT !.second = "empty", !.raw = raw])]
  /\ UNCHANGED <<sseMap, sse, pc, req, res, stream, streamErrHandled, child, callerClosed>>
  /\ UNCHANGED <<dcalls, notified, notify, log, shown>>

\* getFormatsWithYtDlp rejected (execFile error or JSON.parse error):
\* catch (e2) logs, then the 500.
YtDlpReject(f, logOk) ==
  /\ fmtReq[f].pc = "awaitYtDlp"
  /\ log' = AppendLog(log, "yt-dlp fallback error", logOk)
  /\ fmtReq' = [fmtReq EXCEPT ![f] =
                  FailureAnswer([@ EXCEPT !.second = "rejected", !.steps = Append(@, "log")])]
  /\ UNCHANGED <<sseMap, sse, pc, req, res, stream, streamErrHandled, child, callerClosed>>
  /\ UNCHANGED <<dcalls, notified, notify, shown>>

\* fetchFormats of the client after a 2xx answer: filter by the selected
\* type, then sort.
ClientFilter(f, type) == IF type = "audio" THEN f.hasAudio ELSE f.hasVideo \/ f.hasAudio
ClientList(fmts, type) ==
  LET keep(f)  == ClientFilter(f, type)
      filtered == SelectSeq(fmts, keep)
  IN SortBy(filtered, [p \in Entries(filtered) \X Entries(filtered) |->
                         ClientCompare(p[1], p[2])])

ClientFetch(f, type) ==
  /\ fmtReq[f].pc = "returned"
  /\ fmtReq[f].status = 200
  /\ ~shown[f].done
  /\ shown' = [shown EXCEPT ![f] = [done |-> TRUE, type |-> type,
                                    list |-> ClientList(fmtReq[f].formats, type)]]
  /\ UNCHANGED <<sseMap, sse, pc, req, res, stream, streamErrHandled, child, callerClosed>>
  /\ UNCHANGED <<dcalls, notified, notify, fmtReq, log>>

\* ------------------------------------------------------------------- init
Init ==
  /\ sseMap = [i \in Ids |-> None]
  /\ sse = [c \in Conns |-> FreshSse]
  /\ pc = [d \in Downloads |-> "idle"]
  /\ req = [d \in Downloads |-> FreshReq]
  /\ res = [d \in Downloads |-> FreshRes]
  /\ stream = [d \in Downloads |-> FreshStream]
  /\ streamErrHandled = [d \in Downloads |-> FALSE]
  /\ child = [d \in Downloads |-> << >>]
  /\ callerClosed = [d \in Downloads |-> FALSE]
  /\ dcalls = [d \in Downloads |-> 0]
  /\ notified = [d \in Downloads |-> 0]
  /\ notify = [d \in Downloads |-> FreshNotify]
  /\ fmtReq = [f \in FormatReqs |-> FreshFmt]
  /\ log = << >>
  /\ shown = [f \in FormatReqs |-> FreshShown]

\* Spec: one download with every event its ytdl stream and its yt-dlp
\* processes can produce, next to MaxConns progress connections; the
\* webhook and the production signal are both configured or both not, and
\* the outcome of the POST is left out.
Next ==
  \/ \E c \in 1..MaxConns, id \in Ids \cup {NoId} : SseRequest(c, id)
  \/ \E c \in 1..MaxConns : SseClose(c)
  \/ \E d \in 1..MaxDownloads, rid \in Ids \cup {NoId}, type \in Types, itag \in Itags,
        urlOk \in BOOLEAN, key \in Keys, provided \in Given :
        DownloadRequest(d, rid, type, itag, urlOk, key, provided)
  \/ \E d \in 1..MaxDownloads : GetInfoReject(d)
  \/ \E d \in 1..MaxDownloads, total \in 0..MaxChunks :
        \E outcome \in ChooseOutcomes(req[d].itag), webhook \in BOOLEAN :
          GetInfoResolve(d, outcome, total, webhook, webhook)
  \/ \E d \in 1..MaxDownloads : PrimaryProgress(d)
  \/ \E d \in 1..MaxDownloads : PrimaryData(d)
  \/ \E d \in 1..MaxDownloads : PrimaryEnd(d)
  \/ \E d \in 1..MaxDownloads, fatal \in BOOLEAN : PrimaryError(d, fatal)
  \/ \E d \in 1..MaxDownloads, i \in 1..MaxErrors : ChildData(d, i)
  \/ \E d \in 1..MaxDownloads, i \in 1..MaxErrors, ok \in BOOLEAN : ChildExit(d, i, ok)
  \/ \E d \in 1..MaxDownloads : CallerClose(d)

Spec == Init /\ [][Next]_vars

\* SpecReg: RegDownloads concurrent downloads next to RegConns progress
\* connections, in runs where no yt-dlp process writes or exits, of a
\* server started without API_KEY and without NOTIFY_WEBHOOK.
NextReg ==
  \/ \E c \in 1..RegConns, id \in Ids \cup {NoId} : SseRequest(c, id)
  \/ \E c \in 1..RegConns : SseClose(c)
  \/ \E d \in 1..RegDownloads, rid \in Ids \cup {NoId}, type \in Types, itag \in Itags,
        urlOk \in BOOLEAN : DownloadRequest(d, rid, type, itag, urlOk, "", "")
  \/ \E d \in 1..RegDownloads : GetInfoReject(d)
  \/ \E d \in 1..RegDownloads, total \in 0..MaxChunks :
        \E outcome \in ChooseOutcomes(req[d].itag) :
          GetInfoResolve(d, outcome, total, FALSE, FALSE)
  \/ \E d \in 1..RegDownloads : PrimaryProgress(d)
  \/ \E d \in 1..RegDownloads : PrimaryData(d)
  \/ \E d \in 1..RegDownloads : PrimaryEnd(d)
  \/ \E d \in 1..RegDownloads, fatal \in BOOLEAN : PrimaryError(d, fatal)
  \/ \E d \in 1..RegDownloads : CallerClose(d)

SpecReg == Init /\ [][NextReg]_vars

\* SpecFmt: /api/formats requests with every outcome of the two resolvers
\* and the list the client builds, next to a /api/download request up to the
\* creation of its stream (no requestId, no itag).
NextFmt ==
  \/ \E f \in FormatReqs, urlOk \in BOOLEAN : FormatsRequest(f, urlOk)
  \/ \E f \in FormatReqs, raw \in ListsOf(YtdlFormats, MaxFormats) : FormatsInfoResolve(f, raw)
  \/ \E f \in FormatReqs, logOk \in BOOLEAN : FormatsInfoReject(f, logOk)
  \/ \E f \in FormatReqs, raw \in ListsOf(YtDlpFormats, MaxFormats) : YtDlpResolve(f, raw)
  \/ \E f \in FormatReqs, logOk \in BOOLEAN : YtDlpReject(f, logOk)
  \/ \E f \in FormatReqs, type \in Types : ClientFetch(f, type)
  \/ \E d \in 1..MaxDownloads, type \in Types, urlOk \in BOOLEAN, key \in Keys,
        provided \in Given : DownloadRequest(d, NoId, type, NoItag, urlOk, key, provided)
  \/ \E d \in 1..MaxDownloads : GetInfoReject(d)
  \/ \E d \in 1..MaxDownloads, webhook \in BOOLEAN, isProd \in BOOLEAN :
        GetInfoResolve(d, "nothing", 0, webhook, isProd)

SpecFmt == Init /\ [][NextFmt]_vars

\* SpecNotify: one download without requestId, with
\* every event of its ytdl stream and its yt-dlp processes, in every
\* configuration of the webhook and with every outcome of its POST.
NextNotify ==
  \/ \E d \in 1..MaxDownloads, type \in Types, itag \in {NoItag, "unknown"},
        urlOk \in BOOLEAN, key \in Keys, provided \in Given :
        DownloadRequest(d, NoId, type, itag, urlOk, key, provided)
  \/ \E d \in 1..MaxDownloads : GetInfoReject(d)
  \/ \E d \in 1..MaxDownloads, total \in 0..MaxChunks :
        \E outcome \in ChooseOutcomes(req[d].itag), webhook \in BOOLEAN, isProd \in BOOLEAN :
          GetInfoResolve(d, outcome, total, webhook, isProd)
  \/ \E d \in 1..MaxDownloads, ok \in BOOLEAN : NotifyOutcome(d, ok)
  \/ \E d \in 1..MaxDownloads : PrimaryProgress(d)
  \/ \E d \in 1..MaxDownloads : PrimaryData(d)
  \/ \E d \in 1..MaxDownloads : PrimaryEnd(d)
  \/ \E d \in 1..MaxDownloads, fatal \in BOOLEAN : PrimaryError(d, fatal)
  \/ \E d \in 1..MaxDownloads, i \in 1..MaxErrors : ChildData(d, i)
  \/ \E d \in 1..MaxDownloads, i \in 1..MaxErrors, ok \in BOOLEAN : ChildExit(d, i, ok)
  \/ \E d \in 1..MaxDownloads : CallerClose(d)

SpecNotify == Init /\ [][NextNotify]_vars

\* SpecNoFallback: the server of src/unnamed/part_002 with RegDownloads
\* downloads next to RegConns progress connections, started without API_KEY.
NextNoFallback ==
  \/ \E c \in 1..RegConns, id \in Ids \cup {NoId} : SseRequest(c, id)
  \/ \E c \in 1..RegConns : SseClose(c)
  \/ \E d \in 1..RegDownloads, rid \in Ids \cup {NoId}, type \in Types, itag \in Itags,
        urlOk \in BOOLEAN : DownloadRequest(d, rid, type, itag, urlOk, "", "")
  \/ \E d \in 1..RegDownloads : GetInfoReject(d)
  \/ \E d \in 1..RegDownloads, total \in 0..MaxChunks :
        \E outcome \in ChooseOutcomes(req[d].itag) :
          GetInfoResolve(d, outcome, total, FALSE, FALSE)
  \/ \E d \in 1..RegDownloads : PrimaryProgress(d)
  \/ \E d \in 1..RegDownloads : PrimaryData(d)
  \/ \E d \in 1..RegDownloads : PrimaryEnd(d)
  \/ \E d \in 1..RegDownloads : StreamError(d)
  \/ \E d \in 1..RegDownloads : CallerClose(d)

SpecNoFallback == Init /\ [][NextNoFallback]_vars

\* SpecConc: ConcDownloads concurrent video downloads of valid urls, with
\* any requestId and no itag, next to ConcConns progress connections, on a
\* server started without API_KEY and NOTIFY_WEBHOOK; a stream error is
\* fatal, and no yt-dlp process writes or exits.
NextConc ==
  \/ \E c \in 1..ConcConns, id \in Ids : SseRequest(c, id)
  \/ \E c \in 1..ConcConns : SseClose(c)
  \/ \E d \in 1..ConcDownloads, rid \in Ids \cup {NoId} :
        DownloadRequest(d, rid, "video", NoItag, TRUE, "", "")
  \/ \E d \in 1..ConcDownloads, total \in 0..MaxChunks :
        GetInfoResolve(d, "nothing", total, FALSE, FALSE)
  \/ \E d \in 1..ConcDownloads : PrimaryProgress(d)
  \/ \E d \in 1..ConcDownloads : PrimaryData(d)
  \/ \E d \in 1..ConcDownloads : PrimaryEnd(d)
  \/ \E d \in 1..ConcDownloads : PrimaryError(d, TRUE)
  \/ \E d \in 1..ConcDownloads : CallerClose(d)

SpecConc == Init /\ [][NextConc]_vars

\* ------------------------------------------------------ vocabulary of claims
\* This step is an 'error' event of download d's ytdl stream.
ErrorStep(d) == stream'[d].errors = stream[d].errors + 1
\* This step starts a yt-dlp process for download d.
SpawnStep(d) == Len(child'[d]) > Len(child[d])
\* This step writes an event to progress connection c.
WriteStep(c) == \/ sse'[c].nprog # sse[c].nprog
                \/ sse'[c].done # sse[c].done
                \/ sse'[c].error # sse[c].error
\* The whole content reached the caller, over the ytdl stream alone or over
\* one yt-dlp process alone.
FullyDelivered(d) ==
  \/ res[d].ended = "primary" /\ child[d] = << >>
  \/ /\ res[d].ended = "child"
     /\ stream[d].piped = 0
     /\ \E i \in 1..Len(child[d]) : child[d][i].st = "exited"
     /\ \A i \in 1..Len(child[d]) : child[d][i].st # "exited" => child[d][i].out = 0

\* C1: when the ytdl stream errors while no byte has reached the caller, a
\* yt-dlp process is started for the request (by that very error when the
\* response is still open); when it errors after a byte has reached the
\* caller, the error starts no process and leaves the response ended, and no
\* process is started once a byte has been delivered.
C1_FallbackGate ==
  [][\A d \in Downloads :
       /\ (ErrorStep(d) /\ res[d].bytes = 0) => Len(child'[d]) >= 1
       /\ (ErrorStep(d) /\ res[d].bytes = 0 /\ res[d].ended = "no")
            => Len(child'[d]) = Len(child[d]) + 1
       /\ (ErrorStep(d) /\ res[d].bytes > 0)
            => child'[d] = child[d] /\ res'[d].ended # "no"
       /\ res[d].bytes > 0 => ~SpawnStep(d)]_vars

\* C1 witness: a first error before any byte started yt-dlp, its output
\* reached the caller, and a second error then ended the response.
C1_Witness ==
  \E d \in Downloads :
    /\ stream[d].errors = 2 /\ Len(child[d]) = 1
    /\ res[d].bytes > 0 /\ res[d].ended = "aborted"

C3_ErrorEvent ==
  [][\A d \in Downloads :
       LET c == Lookup(sseMap, req[d].rid)
       IN (ErrorStep(d) /\ res[d].bytes > 0 /\ c # None)
            => /\ sse'[c].error /\ sse'[c].ended
               /\ sseMap'[req[d].rid] = None]_vars

\* C4: once a download has delivered its whole content, the connection that
\* is registered under its requestId, is still connected and got progress
\* events of that download has received 'done' and is out of the registry.
C4_DoneOnCompletion ==
  \A d \in Downloads : \A c \in Conns :
    (/\ FullyDelivered(d)
     /\ sse[c].st = "open" /\ sse[c].id = req[d].rid /\ ~sse[c].closed
     /\ sse[c].nprog >= 1)
    => sse[c].done /\ sseMap[req[d].rid] = None

\* C5: a connection on which 'done' or 'error' was written is ended and is
\* no value of the registry; every event is written to a connection that is
\* at that moment in the registry and not ended.
C5_TerminalClosed ==
  /\ [](\A c \in Conns : (sse[c].done \/ sse[c].error)
           => sse[c].ended /\ \A i \in Ids : sseMap[i] # c)
  /\ [][\A c \in Conns : WriteStep(c)
           => sseMap[sse[c].id] = c /\ ~sse[c].ended /\ ~sse[c].closed]_vars

\* C5 witness: 'done' was written to a connection.
C5_Witness == \E c \in Conns : sse[c].done /\ sse[c].nprog >= 2

\* C6: at most one yt-dlp process is spawned per download.
C6_SpawnOnce == \A d \in Downloads : Len(child[d]) <= 1

\* The connection most recently registered under id (connections are
\* numbered in the order of their requests), None if there is none.
LastRegistered(id) ==
  LET S == {c \in Conns : sse[c].st = "open" /\ sse[c].id = id}
  IN IF S = {} THEN None ELSE CHOOSE c \in S : \A b \in S : b <= c

\* C7: a registry entry holds a connection registered under that id;
\* registering under an id makes the new connection the entry of that id and
\* leaves the other ids alone; every event is written to the connection most
\* recently registered under its id, never to one that was replaced.
C7_LastWriterWins ==
  /\ [](\A i \in Ids : sseMap[i] # None =>
           sse[sseMap[i]].st = "open" /\ sse[sseMap[i]].id = i)
  /\ [][\A c \in Conns :
          /\ (sse[c].st = "unused" /\ sse'[c].st = "open")
               => /\ sseMap'[sse'[c].id] = c
                  /\ \A i \in Ids \ {sse'[c].id} : sseMap'[i] = sseMap[i]
          /\ WriteStep(c) => c = LastRegistered(sse[c].id)]_vars

\* C7 witness: a second connection replaced the first under the same id and
\* got a progress event.
C7_Witness ==
  /\ sse[1].st = "open" /\ sse[2].st = "open" /\ sse[1].id = sse[2].id
  /\ ~sse[1].closed /\ sse[2].nprog >= 1

\* This step is a 'progress' event of download d's ytdl stream.
ProgressStep(d) == stream'[d].downloaded = stream[d].downloaded + 1

\* C8: a 'progress' event of a download whose requestId has no entry in the
\* registry writes to no connection, leaves the registry, the response and
\* the processes alone, and the stream stays open with the chunk counted.
C8_PushNoChannel ==
  [][\A d \in Downloads :
       (ProgressStep(d) /\ (req[d].rid = NoId \/ sseMap[req[d].rid] = None))
         => /\ sse' = sse /\ sseMap' = sseMap
            /\ res' = res /\ child' = child
            /\ stream'[d] = [stream[d] EXCEPT !.downloaded = @ + 1]]_vars

\* C8 witness: a download with a requestId nobody registered delivered its
\* whole content while another id had a connection that got nothing.
C8_Witness ==
  \E d \in Downloads :
    /\ req[d].rid # NoId /\ FullyDelivered(d) /\ res[d].bytes = MaxChunks
    /\ \A c \in Conns : sse[c].id # req[d].rid
    /\ \E c \in Conns : sse[c].st = "open" /\ sseMap[sse[c].id] = c /\ sse[c].nprog = 0

\* C9: the 'close' event of a progress connection and the write of 'done'
\* both leave the connection's id without entry; a 'close' for an id that
\* has no entry leaves the registry as it is.
C9_RemovalIdempotent ==
  [][\A c \in Conns :
       /\ (~sse[c].closed /\ sse'[c].closed)
            => /\ sseMap'[sse[c].id] = None
               /\ \A i \in Ids \ {sse[c].id} : sseMap'[i] = sseMap[i]
               /\ sseMap[sse[c].id] = None => sseMap' = sseMap
       /\ (~sse[c].done /\ sse'[c].done)
            => /\ sseMap'[sse[c].id] = None
               /\ \A i \in Ids \ {sse[c].id} : sseMap'[i] = sseMap[i]]_vars

\* C9 witness: the listener removed the id on 'done' and the connection's
\* 'close' event then removed it again.
C9_Witness == \E c \in Conns : sse[c].done /\ sse[c].closed /\ sseMap[sse[c].id] = None

\* C10: after the caller of a download has disconnected, every yt-dlp
\* process of that download that still runs has been sent SIGTERM.
C10_NoOrphan ==
  \A d \in Downloads :
    callerClosed[d] =>
      \A i \in 1..Len(child[d]) : child[d][i].st = "running" => child[d][i].signalled

\* This step is the 'close' event of download d's request.
CallerCloseStep(d) == ~callerClosed[d] /\ callerClosed'[d]

\* C11: when the caller disconnects while the ytdl stream is serving the
\* download, the stream is closed, and the progress connection registered
\* under the download's requestId is ended and removed from the registry.
C11_PrimaryTeardown ==
  [][\A d \in Downloads :
       LET c == Lookup(sseMap, req[d].rid)
       IN (CallerCloseStep(d) /\ stream[d].st = "open" /\ res[d].ended = "no"
             /\ child[d] = << >>)
            => /\ stream'[d].st # "open"
               /\ c # None => sse'[c].ended /\ sseMap'[req[d].rid] = None]_vars

\* C12: a response that was ended without a byte of content carries an
\* error status: no failed download is answered with success and an empty
\* body.
C12_NoEmptySuccess ==
  \A d \in Downloads :
    (res[d].ended # "no" /\ res[d].bytes = 0) => res[d].status >= 400

\* A backend was invoked for download d: ytdl.getInfo was called, a ytdl
\* stream was created, or a yt-dlp process was spawned.
DownloadBackendInvoked(d) ==
  dcalls[d] > 0 \/ stream[d] # FreshStream \/ child[d] # << >>
\* A backend was invoked for /api/formats request f.
FormatsBackendInvoked(f) == fmtReq[f].primary > 0 \/ fmtReq[f].secondary > 0

\* C13 (as stated): every /api/formats and /api/download request with a
\* missing or malformed url is answered 400, whatever the API-key
\* configuration, and invokes no backend.
C13_BadUrl400 ==
  /\ \A f \in FormatReqs :
       (fmtReq[f].pc # "idle" /\ ~fmtReq[f].urlOk)
         => fmtReq[f].status = 400 /\ ~FormatsBackendInvoked(f)
  /\ \A d \in Downloads :
       (pc[d] # "idle" /\ ~req[d].urlOk)
         => res[d].status = 400 /\ ~DownloadBackendInvoked(d)

\* C13 (amended): a request with a missing or malformed url invokes no
\* backend and is answered 400, except that /api/download answers 401 when
\* an API key is configured and the request's key is missing or different.
C13_BadUrlRejected ==
  /\ \A f \in FormatReqs :
       (fmtReq[f].pc # "idle" /\ ~fmtReq[f].urlOk)
         => /\ fmtReq[f].pc = "returned" /\ fmtReq[f].status = 400 /\ fmtReq[f].sent = 1
            /\ ~FormatsBackendInvoked(f)
  /\ \A d \in Downloads :
       (pc[d] # "idle" /\ ~req[d].urlOk)
         => /\ pc[d] = "returned"
            /\ res[d].status = (IF req[d].key # "" /\ req[d].provided # req[d].key
                                  THEN 401 ELSE 400)
            /\ ~DownloadBackendInvoked(d)

\* Both endpoints have rejected a request with a bad url, /api/download one
\* that also lacks the configured key.
C13_Witness ==
  /\ \E f \in FormatReqs : fmtReq[f].pc = "returned" /\ ~fmtReq[f].urlOk
  /\ \E d \in Downloads : /\ pc[d] = "returned" /\ ~req[d].urlOk
                          /\ req[d].key = "k1" /\ req[d].provided = ""
                          /\ res[d].status = 401

\* C14: with an API key configured, a /api/download request whose key is
\* missing or different is answered 401; for it no backend is invoked, no
\* byte is sent, no progress event is produced and no notification is sent.
C14_Unauthorized ==
  \A d \in Downloads :
    (pc[d] # "idle" /\ req[d].key # "" /\ req[d].provided # req[d].key)
      => /\ pc[d] = "returned" /\ res[d].status = 401 /\ res[d].ended = "json"
         /\ ~DownloadBackendInvoked(d)
         /\ res[d].bytes = 0
         /\ stream[d].downloaded = 0
         /\ notified[d] = 0

\* A request with a wrong key was rejected while a progress connection was
\* registered under its requestId.
C14_Witness ==
  \E d \in Downloads :
    /\ pc[d] = "returned" /\ req[d].key = "k1" /\ req[d].provided = "k2"
    /\ req[d].urlOk /\ res[d].status = 401
    /\ req[d].rid # NoId /\ sseMap[req[d].rid] # None

\* C15: when the primary backend resolved the formats of a /api/formats
\* request, the secondary backend is not invoked for that request.
C15_NoFallbackOnSuccess ==
  \A f \in FormatReqs :
    fmtReq[f].first = "ok"
      => /\ fmtReq[f].secondary = 0 /\ fmtReq[f].second = "none"
         /\ fmtReq[f].pc = "returned" /\ fmtReq[f].status = 200 /\ fmtReq[f].sent = 1

\* The primary backend answered with a list of two formats or more.
C15_Witness ==
  \E f \in FormatReqs :
    fmtReq[f].first = "ok" /\ fmtReq[f].pc = "returned" /\ Len(fmtReq[f].formats) >= 2

\* C16: when the primary backend failed, the secondary backend is invoked
\* exactly once; an answer built from its list carries source 'yt-dlp', an
\* answer built from the primary backend's list never does.
C16_FallbackOnceLabelled ==
  \A f \in FormatReqs :
    /\ fmtReq[f].first = "rejected" => fmtReq[f].secondary = 1
    /\ fmtReq[f].first # "rejected" => fmtReq[f].secondary = 0
    /\ (fmtReq[f].second = "list") = (fmtReq[f].source = "yt-dlp")
    /\ fmtReq[f].first = "ok" => fmtReq[f].source # "yt-dlp"

\* The primary backend failed and the answer holds the secondary's list.
C16_Witness ==
  \E f \in FormatReqs :
    /\ fmtReq[f].first = "rejected" /\ fmtReq[f].second = "list"
    /\ fmtReq[f].pc = "returned" /\ fmtReq[f].status = 200
    /\ Len(fmtReq[f].formats) >= 1

\* C17: when both backends failed (the secondary rejected, or its list is
\* empty), the one answer is a 500 that carries the causes of both
\* failures, and never a success with an empty list.
C17_BothCauses ==
  \A f \in FormatReqs :
    (fmtReq[f].pc = "returned" /\ fmtReq[f].first = "rejected"
       /\ fmtReq[f].second \in {"rejected", "empty"})
      => /\ fmtReq[f].status = 500
         /\ fmtReq[f].sent = 1
         /\ fmtReq[f].causes = {"primary", "secondary"}

\* An entry has both audio and video.
HasBoth(e) == e.hasVideo /\ e.hasAudio
\* The answer of request f holds a list built by one of the resolvers.
Listed(f) == fmtReq[f].pc = "returned" /\ fmtReq[f].status = 200
\* The ids of the raw entries of request f that have a container and are
\* not without both audio and video, per backend.
PassingIds(f) ==
  IF fmtReq[f].first = "ok"
    THEN {fmtReq[f].raw[k].itag : k \in
            {k \in 1..Len(fmtReq[f].raw) :
               /\ fmtReq[f].raw[k].container # ""
               /\ fmtReq[f].raw[k].hasVideo \/ fmtReq[f].raw[k].hasAudio}}
    ELSE {fmtReq[f].raw[k].format_id : k \in
            {k \in 1..Len(fmtReq[f].raw) :
               /\ fmtReq[f].raw[k].ext # ""
               /\ ~(fmtReq[f].raw[k].acodec = "none" /\ fmtReq[f].raw[k].vcodec = "none")}}

\* C18: a list returned by either resolver has every entry with both audio
\* and video before every entry without that combination, and holds exactly
\* the raw entries that pass the filter, each once.
C18_SortedAndFiltered ==
  \A f \in FormatReqs :
    Listed(f) =>
      LET l == fmtReq[f].formats
      IN /\ \A i, j \in 1..Len(l) : (i < j /\ HasBoth(l[j])) => HasBoth(l[i])
         /\ {l[i].itag : i \in 1..Len(l)} = PassingIds(f)
         /\ Len(l) = Cardinality(PassingIds(f))

\* yt-dlp reported an entry with both after two entries without, one of
\* which is filtered out; the primary case is the same with its own entries.
C18_Witness ==
  \E f \in FormatReqs :
    /\ Listed(f) /\ fmtReq[f].second = "list"
    /\ Len(fmtReq[f].raw) = 3 /\ Len(fmtReq[f].formats) = 2
    /\ fmtReq[f].raw[3].format_id = "22" /\ fmtReq[f].formats[1].itag = "22"
    /\ fmtReq[f].raw[1].format_id = "sb0"

\* Two entries of a list tie under the audio+video rule and the quality
\* label.
Tie(a, b) == HasBoth(a) = HasBoth(b) /\ a.qualityLabel = b.qualityLabel
\* The position of the raw entry of request f that became descriptor e.
RawIndex(f, e) ==
  CHOOSE k \in 1..Len(fmtReq[f].raw) : fmtReq[f].raw[k].format_id = e.itag

C20_UnmatchedItag ==
  \A d \in Downloads :
    req[d].itag = "unknown"
      => /\ res[d].message # NoSuchFormat
         /\ stream[d].st # "none"
              => stream[d].format = (IF req[d].type = "audio" THEN "highest-audio"
                                     ELSE "highest-video")

\* This step is the catch of a failed primary resolution of request f.
PrimaryFailStep(f) == fmtReq[f].first = "pending" /\ fmtReq'[f].first = "rejected"
\* This step is the catch of a failed secondary resolution of request f.
SecondaryFailStep(f) == fmtReq[f].second = "pending" /\ fmtReq'[f].second = "rejected"

\* C21: when the primary backend of /api/formats fails, the log write is
\* attempted before the secondary backend is invoked; a failure of the
\* secondary is logged as well; a log write that fails, in either place,
\* leaves the log as it was and changes neither the start of the secondary
\* nor the answer.
C21_LogThenFallback ==
  /\ [](\A f \in FormatReqs :
          /\ fmtReq[f].first = "rejected"
               => /\ Len(fmtReq[f].steps) >= 2
                  /\ fmtReq[f].steps[1] = "log" /\ fmtReq[f].steps[2] = "yt-dlp"
                  /\ fmtReq[f].secondary = 1
          /\ fmtReq[f].second = "rejected"
               => /\ fmtReq[f].steps = <<"log", "yt-dlp", "log">>
                  /\ fmtReq[f].pc = "returned" /\ fmtReq[f].status = 500
                  /\ fmtReq[f].sent = 1
          /\ fmtReq[f].second = "list"
               => /\ fmtReq[f].pc = "returned" /\ fmtReq[f].status = 200
                  /\ fmtReq[f].sent = 1 /\ Len(fmtReq[f].formats) >= 1)
  /\ [][\A f \in FormatReqs :
          /\ PrimaryFailStep(f)
               => /\ log' \in {log, Append(log, "formats error")}
                  /\ fmtReq'[f].pc = "awaitYtDlp" /\ fmtReq'[f].sent = 0
          /\ SecondaryFailStep(f)
               => log' \in {log, Append(log, "yt-dlp fallback error")}]_vars

\* Both log writes failed, and the secondary backend was still started and
\* its failure answered with the 500.
C21_Witness ==
  \E f \in FormatReqs :
    /\ fmtReq[f].first = "rejected" /\ fmtReq[f].second = "rejected"
    /\ log = << >>
    /\ fmtReq[f].status = 500

\* This step is the continuation of a resolved ytdl.getInfo of download d.
ResolveStep(d) ==
  /\ pc[d] = "awaitInfo" /\ pc'[d] # "awaitInfo"
  /\ res'[d].message # GetInfoFailed
\* This step is the end of the POST that maybeNotify sent for download d.
NotifyEndStep(d) == notify[d].st = "pending" /\ notify'[d].st # "pending"

\* C22: the webhook is called once per download, when the metadata of an
\* authorized request with a valid url was resolved and both the webhook
\* and a production signal are configured, and not at all otherwise; the
\* stream is started and the response is left alone whatever was
\* configured, and the end of the POST, if it ever comes, changes nothing
\* of the download.
C22_NotifyOnce ==
  /\ [](\A d \in Downloads :
          /\ notified[d] = (IF notify[d].webhook /\ notify[d].isProd THEN 1 ELSE 0)
          /\ (notified[d] > 0 \/ notify[d] # FreshNotify)
               => /\ req[d].urlOk /\ dcalls[d] = 1
                  /\ ~(req[d].key # "" /\ req[d].provided # req[d].key)
                  /\ res[d].message # GetInfoFailed
                  /\ pc[d] \in {"started", "returned"})
  /\ [][\A d \in Downloads :
          /\ ResolveStep(d)
               => /\ notified'[d] = notified[d] +
                       (IF notify'[d].webhook /\ notify'[d].isProd THEN 1 ELSE 0)
                  /\ res'[d].message # NoSuchFormat
                       => /\ pc'[d] = "started" /\ stream'[d].st = "open"
                          /\ res'[d] = res[d]
          /\ ~ResolveStep(d) => notified'[d] = notified[d]
          /\ NotifyEndStep(d)
               => UNCHANGED <<pc, req, res, stream, child, callerClosed, sseMap, sse,
                              notified>>]_vars

\* A download was announced, its POST failed, and the whole content
\* reached the caller over the ytdl stream.
C22_Witness ==
  \E d \in Downloads :
    /\ notified[d] = 1 /\ notify[d].st = "failed"
    /\ res[d].ended = "primary" /\ res[d].bytes >= 1

\* C23: in the server without fallback, an 'error' of the stream of a
\* download with requestId X answers 500 when no header was sent, writes
\* the 'error' event to the connection registered under X, ends it and
\* removes X, and destroys the stream; a connection that got the 'error'
\* event gets no event after it.
C23_ErrorTerminal ==
  /\ [][\A d \in Downloads :
          ErrorStep(d) =>
            LET c == Lookup(sseMap, req[d].rid)
            IN /\ ~res[d].headersSent
                    => res'[d].status = 500 /\ res'[d].headersSent
               /\ c # None
                    => /\ ~sse[c].error /\ sse'[c].error /\ sse'[c].ended
                       /\ sseMap'[req[d].rid] = None
               /\ stream'[d].st = "destroyed"]_vars
  /\ [][\A c \in Conns : sse[c].error => ~WriteStep(c)]_vars
  /\ [](\A c \in Conns : sse[c].error => \A i \in Ids : sseMap[i] # c)

\* A stream failed before its first byte after one progress event: the
\* caller has the 500 and the connection the 'error' event.
C23_Witness ==
  \E d \in Downloads, c \in Conns :
    /\ stream[d].st = "destroyed" /\ res[d].status = 500
    /\ sse[c].id = req[d].rid /\ sse[c].error /\ sse[c].ended /\ sse[c].nprog >= 1

\* This step is the 'close' event of progress connection c.
SseCloseStep(c) == ~sse[c].closed /\ sse'[c].closed

\* C24: the close of a progress connection removes only its own
\* registration: an id that is mapped to another connection stays mapped
\* to it.
C24_CloseOwnEntry ==
  [][\A c \in Conns :
       SseCloseStep(c) => \A i \in Ids : sseMap[i] # c => sseMap'[i] = sseMap[i]]_vars

\* C25: every connection held in the registry is open: the server has not
\* ended it and its client has not closed it.
C25_RegistryOpen ==
  \A i \in Ids :
    sseMap[i] # None
      => /\ sse[sseMap[i]].st = "open"
         /\ ~sse[sseMap[i]].ended
         /\ ~sse[sseMap[i]].closed

\* Two downloads that use the same requestId run, the first has brought the
\* connection of that id to its end, and another connection is registered.
C25_Witness ==
  \E c, b \in Conns :
    /\ c # b /\ sse[c].done /\ sse[c].ended
    /\ \E i \in Ids : sseMap[i] = b
    /\ \A d \in 1..ConcDownloads : stream[d].st # "none" /\ req[d].rid = sse[c].id

\* This step is an action of download d.
DownloadStep(d) ==
  <<pc[d], req[d], res[d], stream[d], child[d], callerClosed[d]>>' #
  <<pc[d], req[d], res[d], stream[d], child[d], callerClosed[d]>>

\* C26: a step of a download changes no connection but the one registered
\* under the download's requestId, and no registry entry but that id's; a
\* download without requestId changes none.
C26_Isolation ==
  [][\A d \in Downloads :
       DownloadStep(d) =>
         /\ \A c \in Conns :
              sse'[c] # sse[c] => req[d].rid # NoId /\ sseMap[req[d].rid] = c
         /\ \A i \in Ids :
              sseMap'[i] # sseMap[i] => i = req[d].rid]_vars

\* Two downloads with different requestIds: the connection of the first got
\* its 'done', the connection of the second is registered and has events.
C26_Witness ==
  \E c, b \in Conns :
    /\ c # b
    /\ req[1].rid # NoId /\ req[2].rid # NoId /\ req[1].rid # req[2].rid
    /\ sse[c].id = req[1].rid /\ sse[c].done
    /\ sse[b].id = req[2].rid /\ sseMap[req[2].rid] = b /\ sse[b].nprog >= 1
    /\ ~sse[b].ended
====
